---- MODULE Spec2Model ----
(***************************************************************************)
(* Verification model of the order-extraction pipeline:                    *)
(*   - RateLimiter        (infrastructure/rate_limiter.py)                 *)
(*   - async_retry        (infrastructure/decorators/retry_decorator.py)   *)
(*   - OrderExtractionService (core/order_service.py)                      *)
(*   - extraction strategies (core/extraction_strategies.py)               *)
(*   - command line       (main.py, utils/unified_order_processor.py)      *)
(*   - EnhancedErrorHandler (infrastructure/error_handling.py)             *)
(*   - AmazonAPIClient    (core/amazon_api_client.py)                      *)
(* Each component has its own specifications (SpecLimiter, SpecBackoff,    *)
(* SpecQuota, SpecRetry, SpecRetryHook, SpecOrch, SpecStrategy, SpecCli,   *)
(* SpecErrorHandler, SpecClient); the variables of the other components    *)
(* stutter.                                                                *)
(*                                                                         *)
(* Time is counted in ticks of 0.1 s, the granularity of the limiter's     *)
(* safety margin; time.time() is the variable now.  asyncio.sleep(d) never *)
(* returns before d has elapsed but may return later.                      *)
(***************************************************************************)
EXTENDS Integers, Sequences, FiniteSets, TLC

\* ------------------------------------------------------------------------
\* Generic helpers
\* ------------------------------------------------------------------------
Min(a, b) == IF a <= b THEN a ELSE b

Max(a, b) == IF a >= b THEN a ELSE b

RECURSIVE Pow(_, _)
Pow(b, k) == IF k = 0 THEN 1 ELSE b * Pow(b, k - 1)

\* ------------------------------------------------------------------------
\* RateLimiter: constants
\* ------------------------------------------------------------------------
TicksPerSecond == 10

\* the +0.1 s buffer of _calculate_sleep_time, in ticks
SafetyMargin == 1

\* min(current_delay * 2, 300): cap in seconds
BackoffCapSeconds == 300

BackoffCap == BackoffCapSeconds * TicksPerSecond

\* retry_delays.get(endpoint, 1.0): the default of the lookup, in ticks
BackoffSeed == 1 * TicksPerSecond

\* Two endpoints of APIEndpoint stand for the whole enumeration.
Endpoints == {"orders", "order_items"}

Tasks == {"t1", "t2"}

NoTask == "none"

NoEndpoint == "none"

\* Scaled-down ENDPOINT_LIMITS: max_requests and window (in ticks).
MaxRequestsOrders == 2

MaxRequestsItems == 1

WindowOrders == 3

WindowItems == 2

MaxTime == 8

\* the + 1 s of wait_for_quota_reset on the scale of the windows, in ticks
QuotaResetExtra == 2

\* retry_after values a throttling response may carry, in ticks (0 = None)
MaxRetryAfter == 1

\* bound on the number of consecutive throttling reports tracked
MaxThrottles == 2

ENDPOINT_LIMITS ==
    [e \in Endpoints |->
        IF e = "orders"
        THEN [max_requests |-> MaxRequestsOrders, window_seconds |-> WindowOrders]
        ELSE [max_requests |-> MaxRequestsItems, window_seconds |-> WindowItems]]

VARIABLES
    \* ---- RateLimiter ----
    now,              \* time.time(), in ticks
    request_history,  \* endpoint -> deque of admission timestamps
    retry_delays,     \* endpoint -> pending backoff (ticks)
    locks,            \* endpoint -> task holding the asyncio.Lock, or NoTask
    tpc,              \* task -> position inside acquire / handle_rate_limit_error
    tep,              \* task -> endpoint of the call in progress
    wake,             \* task -> earliest time its asyncio.sleep returns
    admitted,         \* endpoint -> recent admissions (all timestamps recorded
                      \*   by acquire that are not older than one window)
    windowWaits,      \* endpoint -> number of admissions made after a window sleep
    throttles,        \* endpoint -> consecutive handle_rate_limit_error calls
                      \*   without retry_after since construction; -1 once
                      \*   another operation on the endpoint intervened
    lastDelay,        \* endpoint -> delay slept by the latest
                      \*   handle_rate_limit_error since the last successful call
    acquireBackoff    \* endpoint -> backoff slept by the latest acquire that
                      \*   started while lastDelay was positive (-1: none yet)

VARIABLES
    \* ---- async_retry ----
    max_retries,      \* decorator argument
    backoff_base,     \* decorator argument
    exceptions,       \* decorator argument: the exception types that retry
    on_retry,         \* TRUE when an on_retry callback was supplied
    retry_count,      \* loop variable of the wrapper
    outcomes,         \* outcome of every invocation of the wrapped function
    waits,            \* durations passed to asyncio.sleep, in seconds
    hookCalls,        \* retry_count values passed to on_retry
    result            \* [kind, attempt]: kind is "running", "returned",
                      \*   "raised" (the exception of that attempt) or
                      \*   "RuntimeError"

retryVars == <<max_retries, backoff_base, exceptions, on_retry, retry_count, outcomes,
               waits, hookCalls, result>>

VARIABLES
    \* ---- OrderExtractionService ----
    extract_type,     \* config.extract_type
    batch_size,       \* config.batch_size
    opc,              \* position inside extract_orders
    initialized,      \* AsyncService._initialized
    open_pools,       \* connection pools of DatabaseManager that are open
    orders,           \* result of strategy.extract (order ids, NoId = no id)
    i,                \* start index of the current chunk (0-based)
    j,                \* position of the next order inside the chunk (1-based)
    all_order_items,  \* items collected for the current chunk
    events,           \* lines written by MetricsCollector
    orderWrites,      \* calls of upsert_orders / update_order_status_only
    itemWrites,       \* calls of upsert_order_items
    fetchLog,         \* calls of get_order_items / get_sales_data
    notifications,    \* success e-mails sent
    reports,          \* calls of error_handler.handle_error
    cooldowns,        \* number of asyncio.sleep(30)
    attemptErrors,    \* exception that ended each invocation of the try body
    attempts,         \* invocations of strategy.extract
    err,              \* exception being handled
    errOrigin,        \* call that raised err
    raised            \* exception that left extract_orders

orchVars == <<extract_type, batch_size, opc, initialized, open_pools, orders, i, j,
              all_order_items, events, orderWrites, itemWrites, fetchLog,
              notifications, reports, cooldowns, attemptErrors, attempts,
              err, errOrigin, raised>>

VARIABLES
    \* ---- extraction strategies ----
    strategy,         \* extract type of the strategy object
    db_manager,       \* TRUE iff a persistence collaborator was passed to __init__
    store,            \* rows of the orders table, by amazonOrderId
    remote,           \* orders as the marketplace reports them, by AmazonOrderId
    spc,              \* position inside extract
    pending_orders,   \* rows loaded by get_pending_orders
    stale_orders,     \* rows loaded by get_stale_orders
    api_orders,       \* result of get_orders_paginated
    pending_pos,      \* position of the next row of pending_orders (1-based)
    status_retry,     \* retry_count of get_order_status
    status_polls,     \* iterations of get_order_status that neither returned nor raised
    updated_orders,   \* records collected by StatusUpdateExtraction.extract
    orders_to_delete, \* ids collected for delete_orders
    orders_to_insert, \* records collected by WeeklyCatchUpExtraction.extract
    extracted,        \* list returned by extract
    deleteCalls,      \* argument of each delete_orders call
    remoteCalls,      \* number of marketplace calls made by the strategy
    storeCalls,       \* number of persistence calls made by the strategy
    extractCalls,     \* number of invocations of extract
    sraised           \* exception that left extract

stratVars == <<strategy, db_manager, store, remote, spc, pending_orders, stale_orders,
               api_orders, pending_pos, status_retry, status_polls, updated_orders,
               orders_to_delete, orders_to_insert, extracted, deleteCalls,
               remoteCalls, storeCalls, extractCalls, sraised>>

VARIABLES
    \* ---- command line (main.py) ----
    mode,             \* value of --mode
    cpc,              \* position inside main
    success,          \* value returned by processor.run
    exit_code         \* exit status of the process

cliVars == <<mode, cpc, success, exit_code>>

VARIABLES
    \* ---- EnhancedErrorHandler ----
    hpc,                   \* position inside handle_error
    herror,                \* type(error).__name__ of the error being handled
    hlevel,                \* error_context.level
    recent_notifications,  \* keys of _recent_notifications younger than 30 minutes
    hfailed,               \* steps of the current call that raised
    handled,               \* calls of handle_error
    hreturned,             \* calls of handle_error that returned normally
    hsent,                 \* e-mails and critical alerts sent
    hraised                \* TRUE iff an exception left handle_error

errVars == <<hpc, herror, hlevel, recent_notifications, hfailed, handled, hreturned,
             hsent, hraised>>

VARIABLES
    \* ---- AmazonAPIClient ----
    api_method,        \* method being executed
    arg_mentions_429,  \* TRUE iff the order id / asin / sku contains "429" or "throttl"
    api_pc,            \* position: "loop", "returned", "raised"
    api_retry_count,   \* retry_count of the method
    api_attempts,      \* outcome of each call of the legacy function
    api_returned,      \* value returned by the method
    api_cause,         \* outcome of the attempt whose exception left the method
    backoff_calls,     \* endpoint of each handle_rate_limit_error call
    api_slots,         \* endpoint of each rate_limiter.acquire(endpoint) of the call
    api_sleeps         \* seconds of each asyncio.sleep of the method

clientVars == <<api_method, arg_mentions_429, api_pc, api_retry_count, api_attempts,
                api_returned, api_cause, backoff_calls, api_slots, api_sleeps>>

\* variables of the other components, for the strategy actions
notStrat == <<cliVars, errVars, clientVars>>

\* variables of the other components, for the command-line actions
notCli == <<stratVars, errVars, clientVars>>

\* variables of the other components, for the error-handler actions
notErr == <<stratVars, cliVars, clientVars>>

\* variables of the other components, for the API-client actions
notClient == <<stratVars, cliVars, errVars>>

extVars == <<stratVars, cliVars, errVars, clientVars>>

limVars == <<now, request_history, retry_delays, locks, tpc, tep, wake,
             admitted, windowWaits, throttles, lastDelay, acquireBackoff>>

\* ------------------------------------------------------------------------
\* RateLimiter: pure functions
\* ------------------------------------------------------------------------
RECURSIVE cleanup_old_requests(_, _)
\* while request_history and request_history[0] < cutoff_time: popleft()
cleanup_old_requests(hist, cutoff) ==
    IF hist # <<>> /\ Head(hist) < cutoff
    THEN cleanup_old_requests(Tail(hist), cutoff)
    ELSE hist

\* calculate_sleep_time without the +0.1 s buffer
calculate_sleep_time_no_buffer(hist, t, window) ==
    IF hist = <<>> THEN 0
    ELSE Max(0, window - (t - Head(hist)))

\* max(0.0, window_seconds - (time.time() - oldest_request) + 0.1)
calculate_sleep_time(hist, t, window) ==
    IF hist = <<>> THEN 0
    ELSE Max(0, (window - (t - Head(hist))) + SafetyMargin)

\* if len(request_history) >= limit.max_requests
limit_reached(hist, maxReq) == Len(hist) >= maxReq

\* self.retry_delays.get(endpoint, 1.0)
retry_delays_get(delays, e, default) ==
    IF e \in DOMAIN delays THEN delays[e] ELSE default

\* delay = min(current_delay * 2, 300)
next_backoff(current) == Min(current * 2, BackoffCap)

LimInit ==
    /\ now = 0
    /\ request_history = [e \in Endpoints |-> <<>>]
    /\ retry_delays = [e \in Endpoints |-> 0]
    /\ locks = [e \in Endpoints |-> NoTask]
    /\ tpc = [t \in Tasks |-> "idle"]
    /\ tep = [t \in Tasks |-> NoEndpoint]
    /\ wake = [t \in Tasks |-> 0]
    /\ admitted = [e \in Endpoints |-> <<>>]
    /\ windowWaits = [e \in Endpoints |-> 0]
    /\ throttles = [e \in Endpoints |-> 0]
    /\ lastDelay = [e \in Endpoints |-> 0]
    /\ acquireBackoff = [e \in Endpoints |-> -1]

\* ------------------------------------------------------------------------
\* RateLimiter: actions
\* ------------------------------------------------------------------------
\* one lock for all endpoints
lock_of_global(e) == "orders"

\* self.locks[endpoint]: the lock an acquire on endpoint e takes
lock_of(e) == e

\* async with self.locks[endpoint]: _cleanup_old_requests; pending retry delay
AcquireEnter(t, e) ==
    /\ tpc[t] = "idle"
    /\ locks[lock_of(e)] = NoTask
    /\ locks' = [locks EXCEPT ![lock_of(e)] = t]
    /\ tep' = [tep EXCEPT ![t] = e]
    /\ request_history' = [request_history EXCEPT ![e] =
           cleanup_old_requests(@, now - ENDPOINT_LIMITS[e].window_seconds)]
    /\ IF retry_delays[e] > 0
       THEN /\ tpc' = [tpc EXCEPT ![t] = "backoff_sleep"]
            /\ wake' = [wake EXCEPT ![t] = now + retry_delays[e]]
       ELSE /\ tpc' = [tpc EXCEPT ![t] = "check"]
            /\ UNCHANGED wake
    /\ acquireBackoff' = [acquireBackoff EXCEPT ![e] =
           IF lastDelay[e] > 0 THEN retry_delays[e] ELSE @]
    /\ throttles' = [throttles EXCEPT ![e] = IF @ > 0 THEN -1 ELSE @]
    /\ UNCHANGED <<now, retry_delays, admitted, windowWaits, lastDelay>>
    /\ UNCHANGED <<retryVars, orchVars, extVars>>

\* if len(request_history) >= limit.max_requests: sleep_time = ...
AcquireCheck(t) ==
    /\ tpc[t] = "check"
    /\ LET e == tep[t]
           lim == ENDPOINT_LIMITS[e]
           st == calculate_sleep_time(request_history[e], now, lim.window_seconds)
       IN IF limit_reached(request_history[e], lim.max_requests) /\ st > 0
          THEN /\ tpc' = [tpc EXCEPT ![t] = "window_sleep"]
               /\ wake' = [wake EXCEPT ![t] = now + st]
          ELSE /\ tpc' = [tpc EXCEPT ![t] = "record"]
               /\ wake' = [wake EXCEPT ![t] = 0]
    /\ UNCHANGED <<now, request_history, retry_delays, locks, tep, admitted,
                   windowWaits, throttles, lastDelay, acquireBackoff>>
    /\ UNCHANGED <<retryVars, orchVars, extVars>>

\* return of one of the two asyncio.sleep calls inside acquire
AcquireResume(t) ==
    /\ tpc[t] \in {"backoff_sleep", "window_sleep"}
    /\ now >= wake[t]
    /\ LET e == tep[t] IN
       IF tpc[t] = "backoff_sleep"
       THEN \* self.retry_delays[endpoint] = 0.0
            /\ retry_delays' = [retry_delays EXCEPT ![e] = 0]
            /\ tpc' = [tpc EXCEPT ![t] = "check"]
            /\ UNCHANGED <<request_history, windowWaits>>
       ELSE \* await self._cleanup_old_requests(endpoint)
            /\ request_history' = [request_history EXCEPT ![e] =
                   cleanup_old_requests(@, now - ENDPOINT_LIMITS[e].window_seconds)]
            /\ tpc' = [tpc EXCEPT ![t] = "record_after_wait"]
            /\ UNCHANGED <<retry_delays, windowWaits>>
    /\ wake' = [wake EXCEPT ![t] = 0]
    /\ UNCHANGED <<now, locks, tep, admitted, throttles, lastDelay,
                   acquireBackoff>>
    /\ UNCHANGED <<retryVars, orchVars, extVars>>

\* request_history.append(time.time()); the lock is released
AcquireRecord(t) ==
    /\ tpc[t] \in {"record", "record_after_wait"}
    /\ LET e == tep[t] IN
       /\ request_history' = [request_history EXCEPT ![e] = Append(@, now)]
       /\ admitted' = [admitted EXCEPT ![e] = Append(@, now)]
       /\ locks' = [locks EXCEPT ![lock_of(e)] = NoTask]
       /\ windowWaits' = [windowWaits EXCEPT ![e] =
              IF tpc[t] = "record_after_wait" THEN Min(@ + 1, 2) ELSE @]
    /\ tpc' = [tpc EXCEPT ![t] = "idle"]
    /\ tep' = [tep EXCEPT ![t] = NoEndpoint]
    /\ wake' = [wake EXCEPT ![t] = 0]
    /\ UNCHANGED <<now, retry_delays, throttles, lastDelay, acquireBackoff>>
    /\ UNCHANGED <<retryVars, orchVars, extVars>>

\* handle_rate_limit_error(endpoint, retry_after); ra = 0 stands for None
HandleRateLimitError(t, e, ra) ==
    /\ tpc[t] = "idle"
    /\ ra = 0 => throttles[e] < MaxThrottles
    /\ LET delay == IF ra # 0 THEN ra
                    ELSE next_backoff(retry_delays_get(retry_delays, e, BackoffSeed))
       IN /\ retry_delays' = IF ra # 0 THEN retry_delays
                             ELSE [retry_delays EXCEPT ![e] = delay]
          /\ wake' = [wake EXCEPT ![t] = now + delay]
          /\ lastDelay' = [lastDelay EXCEPT ![e] = delay]
    /\ throttles' = [throttles EXCEPT ![e] =
           IF @ = -1 THEN -1 ELSE IF ra = 0 THEN @ + 1 ELSE IF @ > 0 THEN -1 ELSE @]
    /\ tpc' = [tpc EXCEPT ![t] = "throttle_sleep"]
    /\ tep' = [tep EXCEPT ![t] = e]
    /\ acquireBackoff' = [acquireBackoff EXCEPT ![e] = -1]
    /\ UNCHANGED <<now, request_history, locks, admitted, windowWaits>>
    /\ UNCHANGED <<retryVars, orchVars, extVars>>

\* await asyncio.sleep(delay) of handle_rate_limit_error returns
HandleRateLimitErrorReturn(t) ==
    /\ tpc[t] = "throttle_sleep"
    /\ now >= wake[t]
    /\ tpc' = [tpc EXCEPT ![t] = "idle"]
    /\ tep' = [tep EXCEPT ![t] = NoEndpoint]
    /\ wake' = [wake EXCEPT ![t] = 0]
    /\ UNCHANGED <<now, request_history, retry_delays, locks,
                   admitted, windowWaits, throttles, lastDelay, acquireBackoff>>
    /\ UNCHANGED <<retryVars, orchVars, extVars>>

\* A wrapped call on endpoint e returns successfully: the client returns the
\* result and makes no call on the limiter.
CallSuccess(t, e) ==
    /\ tpc[t] = "idle"
    /\ lastDelay[e] > 0
    /\ lastDelay' = [lastDelay EXCEPT ![e] = 0]
    /\ acquireBackoff' = [acquireBackoff EXCEPT ![e] = -1]
    /\ throttles' = [throttles EXCEPT ![e] = IF @ > 0 THEN -1 ELSE @]
    /\ UNCHANGED <<now, request_history, retry_delays, locks, tpc, tep, wake,
                   admitted, windowWaits>>
    /\ UNCHANGED <<retryVars, orchVars, extVars>>

\* wait_for_quota_reset(endpoint): await asyncio.sleep(limit.window_seconds + 1)
WaitForQuotaReset(t, e) ==
    /\ tpc[t] = "idle"
    /\ tpc' = [tpc EXCEPT ![t] = "quota_sleep"]
    /\ tep' = [tep EXCEPT ![t] = e]
    /\ wake' = [wake EXCEPT ![t] = now + ENDPOINT_LIMITS[e].window_seconds
                                      + QuotaResetExtra]
    /\ UNCHANGED <<now, request_history, retry_delays, locks, admitted, windowWaits,
                   throttles, lastDelay, acquireBackoff>>
    /\ UNCHANGED <<retryVars, orchVars, extVars>>

\* the sleep of wait_for_quota_reset returns:
\* self.request_history[endpoint].clear(); self.retry_delays[endpoint] = 0.0
QuotaReset(t) ==
    /\ tpc[t] = "quota_sleep"
    /\ now >= wake[t]
    /\ LET e == tep[t] IN
       /\ request_history' = [request_history EXCEPT ![e] = <<>>]
       /\ retry_delays' = [retry_delays EXCEPT ![e] = 0]
    /\ tpc' = [tpc EXCEPT ![t] = "idle"]
    /\ tep' = [tep EXCEPT ![t] = NoEndpoint]
    /\ wake' = [wake EXCEPT ![t] = 0]
    /\ UNCHANGED <<now, locks, admitted, windowWaits, throttles, lastDelay,
                   acquireBackoff>>
    /\ UNCHANGED <<retryVars, orchVars, extVars>>

\* the clock advances; admissions older than every window are forgotten
Tick ==
    /\ now < MaxTime
    /\ now' = now + 1
    /\ admitted' = [e \in Endpoints |->
           cleanup_old_requests(admitted[e],
                                now + 1 - ENDPOINT_LIMITS[e].window_seconds)]
    /\ UNCHANGED <<request_history, retry_delays, locks, tpc, tep, wake,
                   windowWaits, throttles, lastDelay, acquireBackoff>>
    /\ UNCHANGED <<retryVars, orchVars, extVars>>

\* concurrent acquire calls on every endpoint
LimNext ==
    \/ \E t \in Tasks, e \in Endpoints : AcquireEnter(t, e)
    \/ \E t \in Tasks : AcquireCheck(t)
    \/ \E t \in Tasks : AcquireResume(t)
    \/ \E t \in Tasks : AcquireRecord(t)
    \/ Tick

\* one caller alternating throttling reports, acquires and successful calls
BackoffTasks == {"t1"}

BackoffNext ==
    \/ \E t \in BackoffTasks, e \in Endpoints : AcquireEnter(t, e)
    \/ \E t \in BackoffTasks : AcquireCheck(t)
    \/ \E t \in BackoffTasks : AcquireResume(t)
    \/ \E t \in BackoffTasks : AcquireRecord(t)
    \/ \E t \in BackoffTasks, e \in Endpoints, ra \in 0..MaxRetryAfter :
           HandleRateLimitError(t, e, ra)
    \/ \E t \in BackoffTasks : HandleRateLimitErrorReturn(t)
    \/ \E t \in BackoffTasks, e \in Endpoints : CallSuccess(t, e)
    \/ Tick

\* the endpoint on which the callers of QuotaNext meet
QuotaEndpoint == "order_items"

\* two callers mixing acquire, handle_rate_limit_error and wait_for_quota_reset
\* on the same endpoint
QuotaNext ==
    \/ \E t \in Tasks : AcquireEnter(t, QuotaEndpoint)
    \/ \E t \in Tasks : AcquireCheck(t)
    \/ \E t \in Tasks : AcquireResume(t)
    \/ \E t \in Tasks : AcquireRecord(t)
    \/ \E t \in Tasks : HandleRateLimitError(t, QuotaEndpoint, 0)
    \/ \E t \in Tasks : HandleRateLimitErrorReturn(t)
    \/ \E t \in Tasks : WaitForQuotaReset(t, QuotaEndpoint)
    \/ \E t \in Tasks : QuotaReset(t)
    \/ Tick

\* ------------------------------------------------------------------------
\* async_retry
\* ------------------------------------------------------------------------
MaxRetriesBound == 3

MaxBackoffBase == 3

\* exception types the wrapped function may raise
ExcTypes == {"ConnectionError", "TimeoutError", "ValueError"}

\* outcomes of one invocation of the wrapped function
Outcomes == {"ok"} \cup ExcTypes

\* a mutant that catches every exception
is_caught_all(exc, excs) == TRUE

\* except exceptions as e: only instances of `exceptions` enter the handler
is_caught(exc, excs) == exc \in excs

\* if retry_count == max_retries - 1
is_last_attempt(count, maxr) == count = maxr - 1

\* a mutant whose exponent is off by one
wait_time_off_by_one(base, count) == Pow(base, count + 1)

\* wait_time = backoff_base ** retry_count
wait_time(base, count) == Pow(base, count)

RetryIdle ==
    /\ max_retries = 0
    /\ backoff_base = 0
    /\ exceptions = {}
    /\ on_retry = FALSE
    /\ retry_count = 0
    /\ outcomes = <<>>
    /\ waits = <<>>
    /\ hookCalls = <<>>
    /\ result = [kind |-> "idle", attempt |-> 0]

RetryInit ==
    /\ max_retries \in 0..MaxRetriesBound
    /\ backoff_base \in 1..MaxBackoffBase
    /\ exceptions \in SUBSET ExcTypes
    /\ on_retry \in BOOLEAN
    /\ retry_count = 0
    /\ outcomes = <<>>
    /\ waits = <<>>
    /\ hookCalls = <<>>
    /\ result = [kind |-> "running", attempt |-> 0]

\* return await func(*args, **kwargs)
AttemptReturns ==
    /\ result.kind = "running"
    /\ retry_count < max_retries
    /\ outcomes' = Append(outcomes, "ok")
    /\ result' = [kind |-> "returned", attempt |-> retry_count]
    /\ UNCHANGED <<max_retries, backoff_base, exceptions, on_retry, retry_count, waits,
                   hookCalls>>
    /\ UNCHANGED <<limVars, orchVars, extVars>>

\* what a call of the on_retry callback does
HookBehaviours == {"returns", "raises"}

\* func raises; the except clause decides between re-raise and retry;
\* h is the behaviour of on_retry, when it is called
AttemptRaises(o, h) ==
    /\ result.kind = "running"
    /\ retry_count < max_retries
    /\ o # "ok"
    /\ outcomes' = Append(outcomes, o)
    /\ IF ~is_caught(o, exceptions)
       THEN \* not an instance of `exceptions`: leaves the wrapper
            /\ result' = [kind |-> "raised", attempt |-> retry_count]
            /\ UNCHANGED <<retry_count, waits, hookCalls>>
       ELSE IF is_last_attempt(retry_count, max_retries)
       THEN \* raise
            /\ result' = [kind |-> "raised", attempt |-> retry_count]
            /\ UNCHANGED <<retry_count, waits, hookCalls>>
       ELSE IF on_retry /\ h = "raises"
       THEN \* on_retry(e, retry_count) raises inside the except clause
            /\ hookCalls' = Append(hookCalls, retry_count)
            /\ result' = [kind |-> "hook_raised", attempt |-> retry_count]
            /\ UNCHANGED <<retry_count, waits>>
       ELSE \* on_retry(e, retry_count); await asyncio.sleep(wait_time)
            /\ hookCalls' = IF on_retry THEN Append(hookCalls, retry_count)
                            ELSE hookCalls
            /\ waits' = Append(waits, wait_time(backoff_base, retry_count))
            /\ retry_count' = retry_count + 1
            /\ UNCHANGED result
    /\ UNCHANGED <<max_retries, backoff_base, exceptions, on_retry>>
    /\ UNCHANGED <<limVars, orchVars, extVars>>

\* the for loop ends without a return or raise:
\* raise last_exception if last_exception else RuntimeError(...)
LoopExhausted ==
    /\ result.kind = "running"
    /\ retry_count >= max_retries
    /\ result' = IF outcomes # <<>>
                 THEN [kind |-> "raised", attempt |-> Len(outcomes) - 1]
                 ELSE [kind |-> "RuntimeError", attempt |-> 0]
    /\ UNCHANGED <<max_retries, backoff_base, exceptions, on_retry, retry_count, outcomes,
                   waits, hookCalls>>
    /\ UNCHANGED <<limVars, orchVars, extVars>>

\* the wrapper without a callback or with one that returns
RetryNext ==
    \/ AttemptReturns
    \/ \E o \in Outcomes : AttemptRaises(o, "returns")
    \/ LoopExhausted

\* the wrapper with any callback
RetryHookNext ==
    \/ AttemptReturns
    \/ \E o \in Outcomes, h \in HookBehaviours : AttemptRaises(o, h)
    \/ LoopExhausted

\* ------------------------------------------------------------------------
\* OrderExtractionService
\* ------------------------------------------------------------------------
MaxOrders == 3

MaxBatchSize == 3

ExtractTypes == {"daily_full", "incremental", "status_update", "weekly_catch_up"}

\* an order without 'amazonOrderId'
NoId == 0

\* (asin, sku) pairs of line items
Items == {"A", "B"}

MaxItemsPerOrder == 2

\* line-item lists get_order_items may return for one order
ItemLists == {<<>>, <<"A">>, <<"B">>, <<"A", "A">>, <<"A", "B">>}

\* results strategy.extract may return: order k carries id k or no id
OrderLists ==
    UNION {[1..n -> {0, 1}] : n \in 0..MaxOrders}

IdsOf(flags) == [k \in DOMAIN flags |-> IF flags[k] = 1 THEN k ELSE NoId]

NoError == [type |-> "none", msg |-> <<>>]

\* exceptions of the collaborators: type name and the words of str(error)
Errors ==
    { [type |-> "ConnectionError", msg |-> <<"ConnectionError", "refused">>],
      [type |-> "ConnectionError", msg |-> <<"refused">>],
      [type |-> "TimeoutError", msg |-> <<"TimeoutError">>],
      [type |-> "Exception", msg |-> <<"HTTP", "429">>],
      [type |-> "ValueError", msg |-> <<"bad", "schema">>] }

\* the TypeError Python raises for a call with too many positional arguments
ArityError ==
    [type |-> "TypeError", msg |-> <<"takes", "2", "positional", "arguments">>]

\* retry_errors = ['ConnectionError', 'TimeoutError', '429']
retry_errors == {"ConnectionError", "TimeoutError", "429"}

\* any(retry_error in str(error) for retry_error in retry_errors)
should_retry(error) ==
    \E k \in DOMAIN error.msg : error.msg[k] \in retry_errors

\* MetricsCollector.record_process_error(self, error_context): parameters
\* after self
record_process_error_params == 1

\* self.metrics.record_process_error(config, e): arguments passed
record_process_error_args == 2

\* a Python call binds only when the positional arguments fit the parameters
call_binds(nargs, nparams) == nargs = nparams

\* a mutant that slices one order short
batch_slice_short(os, start, size) ==
    SubSeq(os, start + 1, Min(start + size - 1, Len(os)))

\* orders[i:i + config.batch_size]
batch_slice(os, start, size) ==
    SubSeq(os, start + 1, Min(start + size, Len(os)))

\* a mutant that reports at least one order
order_count_at_least_one(os) == Max(Len(os), 1)

\* len(orders)
order_count(os) == Len(os)

RECURSIVE get_unique_items(_, _)
\* _get_unique_items: first occurrence of every (asin, sku), in list order
get_unique_items(items, seen) ==
    IF items = <<>> THEN <<>>
    ELSE IF Head(items) \in seen
         THEN get_unique_items(Tail(items), seen)
         ELSE <<Head(items)>> \o
              get_unique_items(Tail(items), seen \cup {Head(items)})

\* a mutant in which the per-order handler re-raises
after_order_error_raise == "raise"

\* except Exception as e: print(...); continue
after_order_error == "continue"

\* a mutant that sends every result through _process_orders_batch
process_route_batch(t) == "batch"

\* if config.extract_type == ExtractType.STATUS_UPDATE:
\*     _process_status_updates  else: _process_orders_batch
process_route(t) == IF t = "status_update" THEN "status_updates" ELSE "batch"

\* a mutant that notifies for every extract type
should_notify_any_type(t, n) == n > 0

\* if config.extract_type == ExtractType.DAILY_FULL: ...; if order_count > 0
should_notify(t, n) == t = "daily_full" /\ n > 0

Metric(ev, count) == [event |-> ev, order_count |-> count]

Fetch(call, pos, items, ok) ==
    [call |-> call, order |-> pos, items |-> items, ok |-> ok]

\* the pools _ensure_initialized opens on the registered DatabaseManager, in
\* call order (the error handler's _init_email_client catches its own errors)
Pools == <<"local", "prestashop">>

OrchIdle ==
    /\ extract_type = "daily_full"
    /\ batch_size = 1
    /\ opc = "idle"
    /\ initialized = FALSE
    /\ open_pools = {}
    /\ orders = <<>>
    /\ i = 0
    /\ j = 0
    /\ all_order_items = <<>>
    /\ events = <<>>
    /\ orderWrites = <<>>
    /\ itemWrites = <<>>
    /\ fetchLog = <<>>
    /\ notifications = 0
    /\ reports = 0
    /\ cooldowns = 0
    /\ attemptErrors = <<>>
    /\ attempts = 0
    /\ err = NoError
    /\ errOrigin = "none"
    /\ raised = NoError

OrchInit ==
    /\ extract_type \in ExtractTypes
    /\ batch_size \in 1..MaxBatchSize
    /\ opc = "start"
    /\ initialized = FALSE
    /\ open_pools = {}
    /\ orders = <<>>
    /\ i = 0
    /\ j = 0
    /\ all_order_items = <<>>
    /\ events = <<>>
    /\ orderWrites = <<>>
    /\ itemWrites = <<>>
    /\ fetchLog = <<>>
    /\ notifications = 0
    /\ reports = 0
    /\ cooldowns = 0
    /\ attemptErrors = <<>>
    /\ attempts = 0
    /\ err = NoError
    /\ errOrigin = "none"
    /\ raised = NoError

\* an exception leaves the body of `async with self.lifecycle()`: the
\* finally of lifecycle runs _ensure_finished, then the except clause is entered
Raise(e, origin) ==
    /\ err' = e
    /\ errOrigin' = origin
    /\ attemptErrors' = Append(attemptErrors, e)
    /\ initialized' = FALSE
    /\ open_pools' = {}
    /\ opc' = "except"

\* async with self.lifecycle(); record_process_start; _get_extraction_strategy.
\* failAt = 0: _ensure_initialized opens every pool.  failAt = k: the k-th
\* init call raises e; _initialized is still False, so the _ensure_finished
\* of lifecycle's finally returns at once, and the except clause is entered
BeginRun(failAt, e) ==
    /\ opc = "start"
    /\ IF failAt = 0
       THEN /\ e = NoError
            /\ initialized' = TRUE
            /\ open_pools' = {Pools[k] : k \in DOMAIN Pools}
            /\ events' = Append(events, Metric("process_start", 0))
            /\ opc' = "extract"
            /\ UNCHANGED <<err, errOrigin, attemptErrors>>
       ELSE /\ e # NoError
            /\ initialized' = FALSE
            /\ open_pools' = open_pools \cup {Pools[k] : k \in 1..(failAt - 1)}
            /\ err' = e
            /\ errOrigin' = "init"
            /\ attemptErrors' = Append(attemptErrors, e)
            /\ opc' = "except"
            /\ UNCHANGED events
    /\ orders' = <<>>
    /\ i' = 0
    /\ j' = 0
    /\ all_order_items' = <<>>
    /\ UNCHANGED <<extract_type, batch_size, orderWrites, itemWrites, fetchLog,
                   notifications, reports, cooldowns, attempts, raised>>
    /\ UNCHANGED <<limVars, retryVars, extVars>>

\* orders = await strategy.extract(config); the empty result returns at once
ExtractReturns(os) ==
    /\ opc = "extract"
    /\ attempts' = attempts + 1
    /\ orders' = os
    /\ IF os = <<>>
       THEN \* record_process_success(config, len(orders)); _ensure_finished
            /\ events' = Append(events, Metric("process_success", order_count(os)))
            /\ initialized' = FALSE
            /\ open_pools' = {}
            /\ opc' = "done"
       ELSE /\ opc' = process_route(extract_type)
            /\ UNCHANGED <<events, initialized, open_pools>>
    /\ UNCHANGED <<extract_type, batch_size, i, j, all_order_items, orderWrites,
                   itemWrites, fetchLog, notifications, reports, cooldowns,
                   attemptErrors, err, errOrigin, raised>>
    /\ UNCHANGED <<limVars, retryVars, extVars>>

\* strategy.extract raises
ExtractRaises(e) ==
    /\ opc = "extract"
    /\ attempts' = attempts + 1
    /\ Raise(e, "extract")
    /\ UNCHANGED <<extract_type, batch_size, orders, i, j, all_order_items,
                   events, orderWrites, itemWrites, fetchLog, notifications,
                   reports, cooldowns, raised>>
    /\ UNCHANGED <<limVars, retryVars, extVars>>

\* _process_status_updates: one update_order_status_only call for all orders
ProcessStatusUpdates(outcome) ==
    /\ opc = "status_updates"
    /\ orderWrites' = Append(orderWrites,
           [op |-> "update_order_status_only", orders |-> orders])
    /\ IF outcome = NoError
       THEN /\ opc' = "success"
            /\ UNCHANGED <<err, errOrigin, attemptErrors, initialized, open_pools>>
       ELSE Raise(outcome, "update_order_status_only")
    /\ UNCHANGED <<extract_type, batch_size, orders, i, j, all_order_items,
                   events, itemWrites, fetchLog, notifications, reports,
                   cooldowns, attempts, raised>>
    /\ UNCHANGED <<limVars, retryVars, extVars>>

\* for i in range(0, len(orders), batch_size): upsert_orders(batch)
UpsertBatch(outcome) ==
    /\ opc = "batch"
    /\ orderWrites' = Append(orderWrites,
           [op |-> "upsert_orders", orders |-> batch_slice(orders, i, batch_size)])
    /\ IF outcome # NoError
       THEN /\ Raise(outcome, "upsert_orders")
            /\ UNCHANGED <<j, all_order_items>>
       ELSE /\ IF extract_type = "status_update"
               THEN opc' = "success"
               ELSE opc' = "order"
            /\ j' = 1
            /\ all_order_items' = <<>>
            /\ UNCHANGED <<err, errOrigin, attemptErrors, initialized, open_pools>>
    /\ UNCHANGED <<extract_type, batch_size, orders, i, events, itemWrites,
                   fetchLog, notifications, reports, cooldowns, attempts, raised>>
    /\ UNCHANGED <<limVars, retryVars, extVars>>

\* sales calls of one order: every unique item in turn, the failAt-th call
\* raises (failAt = 0: none does)
SalesCalls(pos, unique, failAt) ==
    [k \in 1..(IF failAt = 0 THEN Len(unique) ELSE failAt) |->
        Fetch("get_sales_data", pos, <<unique[k]>>, k # failAt)]

\* one iteration of `for order in batch`
ProcessOrder(itemsOk, itemsOutcome, failAt) ==
    /\ opc = "order"
    /\ LET batch == batch_slice(orders, i, batch_size)
           pos == i + j
       IN /\ j <= Len(batch)
          /\ IF batch[j] = NoId
             THEN \* if not order_id: continue
                  /\ ~itemsOk /\ itemsOutcome = <<>> /\ failAt = 0
                  /\ j' = j + 1
                  /\ UNCHANGED <<all_order_items, fetchLog, opc, err, errOrigin,
                                 attemptErrors, initialized, open_pools>>
             ELSE IF ~itemsOk
             THEN \* get_order_items raises
                  /\ itemsOutcome = <<>> /\ failAt = 0
                  /\ fetchLog' = Append(fetchLog,
                         Fetch("get_order_items", pos, <<>>, FALSE))
                  /\ UNCHANGED all_order_items
                  /\ IF after_order_error = "continue"
                     THEN /\ j' = j + 1
                          /\ UNCHANGED <<opc, err, errOrigin, attemptErrors,
                                         initialized, open_pools>>
                     ELSE /\ Raise([type |-> "Exception", msg |-> <<"order">>],
                                   "get_order_items")
                          /\ UNCHANGED j
             ELSE \* get_order_items returns itemsOutcome
                  LET unique == get_unique_items(itemsOutcome, {}) IN
                  /\ failAt \in 0..(IF itemsOutcome = <<>> THEN 0 ELSE Len(unique))
                  /\ all_order_items' = all_order_items \o itemsOutcome
                  /\ fetchLog' = Append(fetchLog,
                         Fetch("get_order_items", pos, itemsOutcome, TRUE))
                       \o (IF itemsOutcome = <<>> THEN <<>>
                           ELSE SalesCalls(pos, unique, failAt))
                  /\ IF failAt = 0 \/ after_order_error = "continue"
                     THEN /\ j' = j + 1
                          /\ UNCHANGED <<opc, err, errOrigin, attemptErrors,
                                         initialized, open_pools>>
                     ELSE /\ Raise([type |-> "Exception", msg |-> <<"sales">>],
                                   "get_sales_data")
                          /\ UNCHANGED j
    /\ UNCHANGED <<extract_type, batch_size, orders, i, events, orderWrites,
                   itemWrites, notifications, reports, cooldowns, attempts,
                   raised>>
    /\ UNCHANGED <<limVars, retryVars, extVars>>

\* after the last order of the chunk: upsert_order_items if there are items,
\* then the next chunk or the end of the loop
FinishBatch(outcome) ==
    /\ opc = "order"
    /\ j > Len(batch_slice(orders, i, batch_size))
    /\ all_order_items = <<>> => outcome = NoError
    /\ itemWrites' = IF all_order_items # <<>>
                     THEN Append(itemWrites, all_order_items) ELSE itemWrites
    /\ IF outcome # NoError
       THEN /\ Raise(outcome, "upsert_order_items")
            /\ UNCHANGED i
       ELSE /\ i' = i + batch_size
            /\ opc' = IF i + batch_size < Len(orders) THEN "batch" ELSE "success"
            /\ UNCHANGED <<err, errOrigin, attemptErrors, initialized, open_pools>>
    /\ UNCHANGED <<extract_type, batch_size, orders, j, all_order_items, events,
                   orderWrites, fetchLog, notifications, reports, cooldowns,
                   attempts, raised>>
    /\ UNCHANGED <<limVars, retryVars, extVars>>

\* record_process_success; _send_success_notification for daily_full;
\* _ensure_finished; return True
RecordSuccess ==
    /\ opc = "success"
    /\ events' = Append(events, Metric("process_success", order_count(orders)))
    /\ notifications' =
           IF should_notify(extract_type, order_count(orders))
           THEN notifications + 1 ELSE notifications
    /\ initialized' = FALSE
    /\ open_pools' = {}
    /\ opc' = "done"
    /\ UNCHANGED <<extract_type, batch_size, orders, i, j, all_order_items,
                   orderWrites, itemWrites, fetchLog, reports, cooldowns,
                   attemptErrors, attempts, err, errOrigin, raised>>
    /\ UNCHANGED <<limVars, retryVars, extVars>>

\* except Exception as e: handle_error (which writes its own error metric),
\* record_process_error(config, e), then retry or re-raise
ExceptHandler ==
    /\ opc = "except"
    /\ reports' = reports + 1
    /\ IF ~call_binds(record_process_error_args, record_process_error_params)
       THEN \* the call raises TypeError inside the except clause
            /\ events' = Append(events, Metric("error_context", 0))
            /\ raised' = ArityError
            /\ opc' = "failed"
            /\ UNCHANGED cooldowns
       ELSE /\ events' = events \o <<Metric("error_context", 0),
                                     Metric("process_error", 0)>>
            /\ IF should_retry(err)
               THEN \* await asyncio.sleep(30); return await self.extract_orders(config)
                    /\ cooldowns' = cooldowns + 1
                    /\ opc' = "start"
                    /\ UNCHANGED raised
               ELSE \* raise
                    /\ raised' = err
                    /\ opc' = "failed"
                    /\ UNCHANGED cooldowns
    /\ UNCHANGED <<extract_type, batch_size, initialized, open_pools, orders, i, j,
                   all_order_items, orderWrites, itemWrites, fetchLog,
                   notifications, attemptErrors, attempts, err, errOrigin>>
    /\ UNCHANGED <<limVars, retryVars, extVars>>

OrchNext ==
    \/ BeginRun(0, NoError)
    \/ \E k \in DOMAIN Pools, e \in Errors : BeginRun(k, e)
    \/ \E f \in OrderLists : ExtractReturns(IdsOf(f))
    \/ \E e \in Errors : ExtractRaises(e)
    \/ \E o \in Errors \cup {NoError} : ProcessStatusUpdates(o)
    \/ \E o \in Errors \cup {NoError} : UpsertBatch(o)
    \/ \E ok \in BOOLEAN, io \in ItemLists, failAt \in 0..MaxItemsPerOrder :
           ProcessOrder(ok, io, failAt)
    \/ \E o \in Errors \cup {NoError} : FinishBatch(o)
    \/ RecordSuccess
    \/ ExceptHandler

\* ------------------------------------------------------------------------
\* Extraction strategies (core/extraction_strategies.py)
\* ------------------------------------------------------------------------
\* order ids are 1..MaxOrderId
MaxOrderId == 2

OrderIds == 1..MaxOrderId

Statuses == {"Pending", "Unshipped", "Shipped"}

\* lastUpdateDate values: 0 lies before the staleness cut-off, 1 after it
Dates == {0, 1}

\* datetime.now() - older_than of get_stale_orders, on the scale of Dates
StaleCutoff == 1

\* WHERE orderStatus IN ('Pending', 'Unshipped')
PendingStatuses == {"Pending", "Unshipped"}

\* WHERE orderStatus IN ('Pending')
StaleStatuses == {"Pending"}

\* LIMIT 1000 of get_pending_orders
PendingLimit == 1000

\* max_retries of get_order_status
StatusMaxRetries == 3

\* iterations of get_order_status without a result that the model follows
MaxPolls == 1

NoRec == [orderStatus |-> "none", lastUpdateDate |-> 0 - 1]

Recs == [orderStatus : Statuses, lastUpdateDate : Dates]

Tables == [OrderIds -> Recs \cup {NoRec}]

EmptyTable == [id \in OrderIds |-> NoRec]

\* a row / an API record: the three compared fields
Row(id, rec) ==
    [amazonOrderId |-> id, orderStatus |-> rec.orderStatus,
     lastUpdateDate |-> rec.lastUpdateDate]

RECURSIVE select_rows(_, _, _)
\* rows of tab with id <= n whose status is in statuses, by ascending id
select_rows(tab, statuses, n) ==
    IF n = 0 THEN <<>>
    ELSE select_rows(tab, statuses, n - 1)
         \o (IF tab[n] # NoRec /\ tab[n].orderStatus \in statuses
             THEN <<Row(n, tab[n])>> ELSE <<>>)

Take(seq, n) == SubSeq(seq, 1, Min(Len(seq), n))

get_pending_orders(tab) == Take(select_rows(tab, PendingStatuses, MaxOrderId), PendingLimit)

IsOld(row) == row.lastUpdateDate < StaleCutoff

get_stale_orders_any_age(tab) == select_rows(tab, StaleStatuses, MaxOrderId)

get_stale_orders(tab) == SelectSeq(select_rows(tab, StaleStatuses, MaxOrderId), IsOld)

\* every order the marketplace reports for the requested period
get_orders_paginated(rem) == select_rows(rem, Statuses, MaxOrderId)

has_status_changed_status_only(old_order, new_order) ==
    old_order.orderStatus # new_order.orderStatus

has_status_changed(old_order, new_order) ==
    \/ old_order.orderStatus # new_order.orderStatus
    \/ old_order.lastUpdateDate # new_order.lastUpdateDate

needs_refresh_always(db_order, api_order) == TRUE

needs_refresh(db_order, api_order) ==
    \/ db_order.orderStatus # api_order.orderStatus
    \/ db_order.lastUpdateDate # api_order.lastUpdateDate

SeqIds(rows) == {rows[n].amazonOrderId : n \in DOMAIN rows}

\* stale_orders_dict[id]
RowOf(rows, id) == CHOOSE r \in {rows[n] : n \in DOMAIN rows} : r.amazonOrderId = id

RECURSIVE partition_delete(_, _, _)
\* orders_to_delete after the first n entries of api_orders
partition_delete(stale, api, n) ==
    IF n = 0 THEN <<>>
    ELSE partition_delete(stale, api, n - 1)
         \o (IF /\ api[n].amazonOrderId \in SeqIds(stale)
                /\ needs_refresh(RowOf(stale, api[n].amazonOrderId), api[n])
             THEN <<api[n].amazonOrderId>> ELSE <<>>)

RECURSIVE partition_insert(_, _, _)
\* orders_to_insert after the first n entries of api_orders
partition_insert(stale, api, n) ==
    IF n = 0 THEN <<>>
    ELSE partition_insert(stale, api, n - 1)
         \o (IF api[n].amazonOrderId \in SeqIds(stale)
             THEN (IF needs_refresh(RowOf(stale, api[n].amazonOrderId), api[n])
                   THEN <<api[n]>> ELSE <<>>)
             ELSE <<api[n]>>)

\* the rows of tab without the first n ids of ids
delete_rows(tab, ids, n) ==
    [id \in OrderIds |-> IF \E m \in 1..n : ids[m] = id THEN NoRec ELSE tab[id]]

\* upsert_orders: tab after the first n rows of rows have been written
upsert_rows(tab, rows, n) ==
    [id \in OrderIds |->
        IF \E m \in 1..n : rows[m].amazonOrderId = id
        THEN LET r == RowOf(SubSeq(rows, 1, n), id)
             IN [orderStatus |-> r.orderStatus, lastUpdateDate |-> r.lastUpdateDate]
        ELSE tab[id]]

CliIdle ==
    /\ mode = "none"
    /\ cpc = "idle"
    /\ success = "unset"
    /\ exit_code = 0 - 1

\* a fresh EnhancedErrorHandler
ErrIdle ==
    /\ hpc = "idle"
    /\ herror = "none"
    /\ hlevel = "none"
    /\ recent_notifications = {}
    /\ hfailed = {}
    /\ handled = 0
    /\ hreturned = 0
    /\ hsent = 0
    /\ hraised = FALSE

ClientIdle ==
    /\ api_method = "none"
    /\ arg_mentions_429 = FALSE
    /\ api_pc = "idle"
    /\ api_retry_count = 0
    /\ api_attempts = <<>>
    /\ api_returned = "unset"
    /\ api_cause = "none"
    /\ backoff_calls = <<>>
    /\ api_slots = <<>>
    /\ api_sleeps = <<>>

NeedsStore == {"incremental", "status_update", "weekly_catch_up"}

StratErrors == {"ValueError", "AttributeError", "RemoteError", "StoreError"}

StratIdle ==
    /\ strategy = "none"
    /\ db_manager = FALSE
    /\ store = EmptyTable
    /\ remote = EmptyTable
    /\ spc = "idle"
    /\ pending_orders = <<>>
    /\ stale_orders = <<>>
    /\ api_orders = <<>>
    /\ pending_pos = 0
    /\ status_retry = 0
    /\ status_polls = 0
    /\ updated_orders = <<>>
    /\ orders_to_delete = <<>>
    /\ orders_to_insert = <<>>
    /\ extracted = <<>>
    /\ deleteCalls = <<>>
    /\ remoteCalls = 0
    /\ storeCalls = 0
    /\ extractCalls = 0
    /\ sraised = "none"

\* a strategy class, its constructor arguments and the two views of the orders
StratInit ==
    /\ strategy \in ExtractTypes
    /\ db_manager \in BOOLEAN
    /\ store \in (IF db_manager THEN Tables ELSE {EmptyTable})
    /\ remote \in Tables
    /\ spc = "new"
    /\ pending_orders = <<>>
    /\ stale_orders = <<>>
    /\ api_orders = <<>>
    /\ pending_pos = 0
    /\ status_retry = 0
    /\ status_polls = 0
    /\ updated_orders = <<>>
    /\ orders_to_delete = <<>>
    /\ orders_to_insert = <<>>
    /\ extracted = <<>>
    /\ deleteCalls = <<>>
    /\ remoteCalls = 0
    /\ storeCalls = 0
    /\ extractCalls = 0
    /\ sraised = "none"

FetchOutcomes == {"ok", "empty", "raises"}

StoreOutcomes == {"ok", "raises"}

StatusOutcomes == {"ok", "flag", "exc"}

StratRaise(e) ==
    /\ spc' = "raised"
    /\ sraised' = e
    /\ UNCHANGED extracted

StratReturn(list) ==
    /\ spc' = "returned"
    /\ extracted' = list
    /\ UNCHANGED sraised

\* ExtractionStrategy.__init__ stores its arguments and returns
Construct ==
    /\ spc = "new"
    /\ spc' = "built"
    /\ UNCHANGED <<strategy, db_manager, store, remote, pending_orders, stale_orders,
                   api_orders, pending_pos, status_retry, status_polls,
                   updated_orders, orders_to_delete, orders_to_insert, extracted,
                   deleteCalls, remoteCalls, storeCalls, extractCalls, sraised>>
    /\ UNCHANGED <<limVars, retryVars, orchVars, notStrat>>

\* DailyFullExtraction.extract
DailyFullExtract(outcome) ==
    /\ spc = "built"
    /\ strategy = "daily_full"
    /\ extractCalls' = extractCalls + 1
    /\ remoteCalls' = remoteCalls + 1
    /\ CASE outcome = "ok" ->
              /\ api_orders' = get_orders_paginated(remote)
              /\ StratReturn(get_orders_paginated(remote))
         [] outcome = "empty" ->
              /\ api_orders' = <<>>
              /\ StratReturn(<<>>)
         [] OTHER ->
              /\ UNCHANGED api_orders
              /\ StratRaise("RemoteError")
    /\ UNCHANGED <<strategy, db_manager, store, remote, pending_orders, stale_orders,
                   pending_pos, status_retry, status_polls, updated_orders,
                   orders_to_delete, orders_to_insert, deleteCalls, storeCalls>>
    /\ UNCHANGED <<limVars, retryVars, orchVars, notStrat>>

\* IncrementalExtraction.extract
IncrementalExtract(outcome) ==
    /\ spc = "built"
    /\ strategy = "incremental"
    /\ extractCalls' = extractCalls + 1
    /\ IF ~db_manager
       THEN /\ StratRaise("ValueError")
            /\ UNCHANGED <<api_orders, remoteCalls>>
       ELSE /\ remoteCalls' = remoteCalls + 1
            /\ CASE outcome = "ok" ->
                      /\ api_orders' = get_orders_paginated(remote)
                      /\ StratReturn(get_orders_paginated(remote))
                 [] outcome = "empty" ->
                      /\ api_orders' = <<>>
                      /\ StratReturn(<<>>)
                 [] OTHER ->
                      /\ UNCHANGED api_orders
                      /\ StratRaise("RemoteError")
    /\ UNCHANGED <<strategy, db_manager, store, remote, pending_orders, stale_orders,
                   pending_pos, status_retry, status_polls, updated_orders,
                   orders_to_delete, orders_to_insert, deleteCalls, storeCalls>>
    /\ UNCHANGED <<limVars, retryVars, orchVars, notStrat>>

\* StatusUpdateExtraction.extract up to the loop over pending_orders
StatusLoad(outcome) ==
    /\ spc = "built"
    /\ strategy = "status_update"
    /\ extractCalls' = extractCalls + 1
    /\ IF ~db_manager
       THEN /\ StratRaise("AttributeError")
            /\ UNCHANGED <<pending_orders, pending_pos, storeCalls>>
       ELSE /\ storeCalls' = storeCalls + 1
            /\ IF outcome = "raises"
               THEN /\ StratRaise("StoreError")
                    /\ UNCHANGED <<pending_orders, pending_pos>>
               ELSE /\ pending_orders' = get_pending_orders(store)
                    /\ IF get_pending_orders(store) = <<>>
                       THEN /\ StratReturn(<<>>)
                            /\ UNCHANGED pending_pos
                       ELSE /\ spc' = "status_loop"
                            /\ pending_pos' = 1
                            /\ UNCHANGED <<extracted, sraised>>
    /\ UNCHANGED <<strategy, db_manager, store, remote, stale_orders, api_orders,
                   status_retry, status_polls, updated_orders, orders_to_delete,
                   orders_to_insert, deleteCalls, remoteCalls>>
    /\ UNCHANGED <<limVars, retryVars, orchVars, notStrat>>

\* the record get_order_status builds from a successful getOrder
current_status(id) == Row(id, remote[id])

\* one iteration of the while loop of get_order_status for the current row,
\* followed, when it returns, by the comparison and the loop step of extract
StatusAttempt(o) ==
    /\ spc = "status_loop"
    /\ remoteCalls' = remoteCalls + 1
    /\ LET order == pending_orders[pending_pos]
           id == order.amazonOrderId
       IN CASE o = "ok" ->
                 /\ remote[id] # NoRec
                 /\ LET upd == IF has_status_changed(order, current_status(id))
                               THEN Append(updated_orders, current_status(id))
                               ELSE updated_orders
                    IN /\ updated_orders' = upd
                       /\ IF pending_pos = Len(pending_orders)
                          THEN StratReturn(upd)
                          ELSE /\ UNCHANGED <<spc, extracted, sraised>>
                 /\ pending_pos' = pending_pos + 1
                 /\ status_retry' = 0
                 /\ status_polls' = 0
            [] o = "flag" ->
                 /\ status_polls < MaxPolls
                 /\ status_polls' = status_polls + 1
                 /\ UNCHANGED <<updated_orders, pending_pos, status_retry, spc,
                                extracted, sraised>>
            [] OTHER ->
                 /\ status_retry' = status_retry + 1
                 /\ IF status_retry + 1 >= StatusMaxRetries
                    THEN StratRaise("RemoteError")
                    ELSE UNCHANGED <<spc, extracted, sraised>>
                 /\ UNCHANGED <<updated_orders, pending_pos, status_polls>>
    /\ UNCHANGED <<strategy, db_manager, store, remote, pending_orders, stale_orders,
                   api_orders, orders_to_delete, orders_to_insert, deleteCalls,
                   storeCalls, extractCalls>>
    /\ UNCHANGED <<limVars, retryVars, orchVars, notStrat>>

\* WeeklyCatchUpExtraction.extract: get_stale_orders
WeeklyLoad(outcome) ==
    /\ spc = "built"
    /\ strategy = "weekly_catch_up"
    /\ extractCalls' = extractCalls + 1
    /\ IF ~db_manager
       THEN /\ StratRaise("AttributeError")
            /\ UNCHANGED <<stale_orders, storeCalls>>
       ELSE /\ storeCalls' = storeCalls + 1
            /\ IF outcome = "raises"
               THEN /\ StratRaise("StoreError")
                    /\ UNCHANGED stale_orders
               ELSE /\ stale_orders' = get_stale_orders(store)
                    /\ spc' = "weekly_fetch"
                    /\ UNCHANGED <<extracted, sraised>>
    /\ UNCHANGED <<strategy, db_manager, store, remote, pending_orders, api_orders,
                   pending_pos, status_retry, status_polls, updated_orders,
                   orders_to_delete, orders_to_insert, deleteCalls, remoteCalls>>
    /\ UNCHANGED <<limVars, retryVars, orchVars, notStrat>>

\* WeeklyCatchUpExtraction.extract: get_orders_paginated and the partition
WeeklyFetch(outcome) ==
    /\ spc = "weekly_fetch"
    /\ remoteCalls' = remoteCalls + 1
    /\ IF outcome = "raises"
       THEN /\ StratRaise("RemoteError")
            /\ UNCHANGED <<api_orders, orders_to_delete, orders_to_insert>>
       ELSE LET api == IF outcome = "ok" THEN get_orders_paginated(remote) ELSE <<>>
                del == partition_delete(stale_orders, api, Len(api))
                ins == partition_insert(stale_orders, api, Len(api))
            IN /\ api_orders' = api
               /\ orders_to_delete' = del
               /\ orders_to_insert' = ins
               /\ IF del # <<>>
                  THEN /\ spc' = "weekly_delete"
                       /\ UNCHANGED <<extracted, sraised>>
                  ELSE StratReturn(ins)
    /\ UNCHANGED <<strategy, db_manager, store, remote, pending_orders, stale_orders,
                   pending_pos, status_retry, status_polls, updated_orders,
                   deleteCalls, storeCalls, extractCalls>>
    /\ UNCHANGED <<limVars, retryVars, orchVars, notStrat>>

\* WeeklyCatchUpExtraction.extract: delete_orders(orders_to_delete) and return;
\* done < Len(orders_to_delete): executemany fails after done rows (autocommit)
WeeklyDelete(done) ==
    /\ spc = "weekly_delete"
    /\ done \in 0..Len(orders_to_delete)
    /\ storeCalls' = storeCalls + 1
    /\ deleteCalls' = Append(deleteCalls, orders_to_delete)
    /\ store' = delete_rows(store, orders_to_delete, done)
    /\ IF done = Len(orders_to_delete)
       THEN StratReturn(orders_to_insert)
       ELSE StratRaise("StoreError")
    /\ UNCHANGED <<strategy, db_manager, remote, pending_orders, stale_orders,
                   api_orders, pending_pos, status_retry, status_polls,
                   updated_orders, orders_to_delete, orders_to_insert, remoteCalls,
                   extractCalls>>
    /\ UNCHANGED <<limVars, retryVars, orchVars, notStrat>>

\* _process_orders_batch on the records a WeeklyCatchUp extract returned:
\* upsert_orders chunk after chunk; n < Len(extracted): a persistence call
\* fails when n orders have been written, and the run fails
WeeklyPersist(n) ==
    /\ spc = "returned"
    /\ strategy = "weekly_catch_up"
    /\ n \in 0..Len(extracted)
    /\ extracted = <<>> => n = 0
    /\ store' = upsert_rows(store, extracted, n)
    /\ storeCalls' = storeCalls + 1
    /\ spc' = IF n = Len(extracted) THEN "run_done" ELSE "run_failed"
    /\ UNCHANGED <<strategy, db_manager, remote, pending_orders, stale_orders,
                   api_orders, pending_pos, status_retry, status_polls,
                   updated_orders, orders_to_delete, orders_to_insert, extracted,
                   deleteCalls, remoteCalls, extractCalls, sraised>>
    /\ UNCHANGED <<limVars, retryVars, orchVars, notStrat>>

StratNext ==
    \/ Construct
    \/ \E o \in FetchOutcomes : DailyFullExtract(o)
    \/ \E o \in FetchOutcomes : IncrementalExtract(o)
    \/ \E o \in StoreOutcomes : StatusLoad(o)
    \/ \E o \in StatusOutcomes : StatusAttempt(o)
    \/ \E o \in StoreOutcomes : WeeklyLoad(o)
    \/ \E o \in FetchOutcomes : WeeklyFetch(o)
    \/ \E d \in 0..MaxOrderId : WeeklyDelete(d)
    \/ \E n \in 0..MaxOrderId : WeeklyPersist(n)

\* ------------------------------------------------------------------------
\* Command line (main.py, utils/unified_order_processor.py)
\* ------------------------------------------------------------------------
\* the values of --mode served by _run_api_service
ApiModes == {"daily_full", "incremental", "status_update", "weekly_catchup"}

\* _get_config_for_mode: the extract type of the configuration built for a mode
config_extract_type(m) == IF m = "weekly_catchup" THEN "weekly_catch_up" ELSE m

\* the value _run_api_service hands back after extract_orders returned ret:
\* the awaited result is dropped and the method falls off its end
run_api_service_result(ret) == "None"

\* `if success:` of main
truthy(v) == v \notin {"None", "False"}

\* main has parsed --mode, resolved the processor and awaits processor.run
CliInit ==
    /\ mode \in ApiModes
    /\ extract_type = config_extract_type(mode)
    /\ cpc = "run"
    /\ success = "unset"
    /\ exit_code = 0 - 1

\* _run_api_service after extract_orders has ended: processor.run returns
\* or the exception of the extraction leaves it
RunApiService ==
    /\ cpc = "run"
    /\ opc \in {"done", "failed"}
    /\ IF opc = "done"
       THEN /\ success' = run_api_service_result("True")
            /\ cpc' = "returned"
       ELSE /\ cpc' = "except"
            /\ UNCHANGED success
    /\ UNCHANGED <<mode, exit_code>>
    /\ UNCHANGED <<limVars, retryVars, orchVars, notCli>>

\* main after processor.run: sys.exit(1) on a falsy result or in the except
\* clause, normal termination otherwise
MainExit ==
    /\ cpc \in {"returned", "except"}
    /\ exit_code' = IF cpc = "returned" /\ truthy(success) THEN 0 ELSE 1
    /\ cpc' = "exited"
    /\ UNCHANGED <<mode, success>>
    /\ UNCHANGED <<limVars, retryVars, orchVars, notCli>>

CliNext ==
    \/ OrchNext
    \/ RunApiService
    \/ MainExit

\* ------------------------------------------------------------------------
\* EnhancedErrorHandler.handle_error (infrastructure/error_handling.py)
\* ------------------------------------------------------------------------
\* calls of handle_error followed
MaxHandled == 2

HandledErrors == {"ConnectionError", "SellingApiException", "ValueError"}

critical_errors == {"DatabaseError", "ConnectionError", "AuthenticationError"}

warning_errors == {"SellingApiException", "RateLimitError"}

determine_alert_level(error_type) ==
    IF error_type \in critical_errors THEN "critical"
    ELSE IF error_type \in warning_errors THEN "warning"
    ELSE "error"

categorize_error(error_type) ==
    CASE error_type = "SellingApiException" -> "api_error"
      [] error_type \in {"DatabaseError", "ConnectionError"} -> "database_error"
      [] error_type = "ProcessingError" -> "processing_error"
      [] OTHER -> "system_error"

notification_key(error_type) == <<error_type, categorize_error(error_type)>>

\* _should_send_email: only error and critical levels, and only when the key
\* was not notified in the last 30 minutes
should_send_email(level, error_type, recent) ==
    /\ level \in {"error", "critical"}
    /\ notification_key(error_type) \notin recent

\* what the outer except clause of handle_error does with a failure of a step
on_handler_error_raise == "raise"

on_handler_error == "print"

\* a step raised: control moves to the outer except clause
StepFails(step) ==
    /\ hfailed' = hfailed \cup {step}
    /\ hpc' = "fallback"

HandleError(e) ==
    /\ hpc = "idle"
    /\ handled < MaxHandled
    /\ handled' = handled + 1
    /\ herror' = e
    /\ hlevel' = "none"
    /\ hfailed' = {}
    /\ hpc' = "context"
    /\ UNCHANGED <<recent_notifications, hreturned, hsent, hraised>>
    /\ UNCHANGED <<limVars, retryVars, orchVars, notErr>>

\* error_context = self._create_error_context(error, context)
CreateErrorContext(ok) ==
    /\ hpc = "context"
    /\ IF ok
       THEN /\ hlevel' = determine_alert_level(herror)
            /\ hpc' = "log"
            /\ UNCHANGED hfailed
       ELSE /\ StepFails("context")
            /\ UNCHANGED hlevel
    /\ UNCHANGED <<herror, recent_notifications, handled, hreturned, hsent, hraised>>
    /\ UNCHANGED <<limVars, retryVars, orchVars, notErr>>

\* await self._log_error(error_context)
LogError(ok) ==
    /\ hpc = "log"
    /\ IF ok
       THEN /\ hpc' = "metrics"
            /\ UNCHANGED hfailed
       ELSE StepFails("log")
    /\ UNCHANGED <<herror, hlevel, recent_notifications, handled, hreturned, hsent,
                   hraised>>
    /\ UNCHANGED <<limVars, retryVars, orchVars, notErr>>

\* record_process_error inside its own try/except: a failure is logged
RecordMetrics(ok) ==
    /\ hpc = "metrics"
    /\ hfailed' = IF ok THEN hfailed ELSE hfailed \cup {"metrics"}
    /\ hpc' = "email"
    /\ UNCHANGED <<herror, hlevel, recent_notifications, handled, hreturned, hsent,
                   hraised>>
    /\ UNCHANGED <<limVars, retryVars, orchVars, notErr>>

\* if self._should_send_email(...): await self._send_error_notification(...);
\* _send_error_notification catches its own failures
Notify(ok) ==
    /\ hpc = "email"
    /\ IF should_send_email(hlevel, herror, recent_notifications)
       THEN /\ recent_notifications' =
                   recent_notifications \cup {notification_key(herror)}
            /\ hsent' = IF ok THEN hsent + 1 ELSE hsent
            /\ hfailed' = IF ok THEN hfailed ELSE hfailed \cup {"email"}
       ELSE UNCHANGED <<recent_notifications, hsent, hfailed>>
    /\ hpc' = "alert"
    /\ UNCHANGED <<herror, hlevel, handled, hreturned, hraised>>
    /\ UNCHANGED <<limVars, retryVars, orchVars, notErr>>

\* if error_context.level == AlertLevel.CRITICAL: await self._send_critical_alert(...)
CriticalAlert(ok) ==
    /\ hpc = "alert"
    /\ IF hlevel = "critical"
       THEN IF ok
            THEN /\ hsent' = hsent + 1
                 /\ hpc' = "returned"
                 /\ UNCHANGED hfailed
            ELSE /\ StepFails("alert")
                 /\ UNCHANGED hsent
       ELSE /\ hpc' = "returned"
            /\ UNCHANGED <<hsent, hfailed>>
    /\ UNCHANGED <<herror, hlevel, recent_notifications, handled, hreturned, hraised>>
    /\ UNCHANGED <<limVars, retryVars, orchVars, notErr>>

\* except Exception as handler_error: print the failure and fall through
Fallback ==
    /\ hpc = "fallback"
    /\ IF on_handler_error = "print"
       THEN /\ hpc' = "returned"
            /\ UNCHANGED hraised
       ELSE /\ hpc' = "raised"
            /\ hraised' = TRUE
    /\ UNCHANGED <<herror, hlevel, recent_notifications, hfailed, handled, hreturned,
                   hsent>>
    /\ UNCHANGED <<limVars, retryVars, orchVars, notErr>>

\* handle_error returns to its caller
HandleReturn ==
    /\ hpc = "returned"
    /\ hreturned' = hreturned + 1
    /\ hpc' = "idle"
    /\ UNCHANGED <<herror, hlevel, recent_notifications, hfailed, handled, hsent,
                   hraised>>
    /\ UNCHANGED <<limVars, retryVars, orchVars, notErr>>

\* 30 minutes pass since a key was notified
ExpireNotification(key) ==
    /\ hpc = "idle"
    /\ key \in recent_notifications
    /\ recent_notifications' = recent_notifications \ {key}
    /\ UNCHANGED <<hpc, herror, hlevel, hfailed, handled, hreturned, hsent, hraised>>
    /\ UNCHANGED <<limVars, retryVars, orchVars, notErr>>

ErrNext ==
    \/ \E e \in HandledErrors : HandleError(e)
    \/ \E ok \in BOOLEAN : CreateErrorContext(ok)
    \/ \E ok \in BOOLEAN : LogError(ok)
    \/ \E ok \in BOOLEAN : RecordMetrics(ok)
    \/ \E ok \in BOOLEAN : Notify(ok)
    \/ \E ok \in BOOLEAN : CriticalAlert(ok)
    \/ Fallback
    \/ HandleReturn
    \/ \E e \in HandledErrors : ExpireNotification(notification_key(e))

\* ------------------------------------------------------------------------
\* AmazonAPIClient: the retry loops (core/amazon_api_client.py) over the
\* legacy functions getOrders, getOrderItems, getOrder, getSales
\* (libs/transform.py)
\* ------------------------------------------------------------------------
\* max_retries of the client methods
ApiMaxRetries == 3

ClientMethods == {"_get_orders_for_market", "get_order_items", "get_order",
                  "get_sales_data"}

\* what one call of the legacy function does:
\*   data / nodata  [frame, 1] with / without rows
\*   throttled      SellingApiException with code 429: [frame with the code, 0]
\*   error_flag     [empty frame, 0]
\*   raises_throttle_text / raises
\*                  an exception whose text does / does not contain "429" or "throttl"
LegacyOutcomes == {"data", "nodata", "throttled", "error_flag",
                   "raises_throttle_text", "raises"}

ThrottlingOutcomes == {"throttled", "raises_throttle_text"}

\* the endpoint each method passes to handle_rate_limit_error
backoff_endpoint(m) ==
    CASE m = "get_order_items" -> "order_items"
      [] m = "get_order" -> "order_items"
      [] m = "get_sales_data" -> "sales"
      [] OTHER -> "none"

\* the value a method returns when its loop ends without a result
exhausted_value(m) == IF m = "get_order" THEN "None" ELSE "[]"

\* the value a method returns after a successful legacy call
success_value(m, o) ==
    IF o = "data" THEN "records"
    ELSE IF m = "get_order" THEN "None" ELSE "[]"

\* `"429" in error_msg or "throttl" in error_msg.lower()` for the exception the
\* except clause of an item method sees: a flag-0 result is turned into
\* Exception("... {order_id}") / Exception("... {asin}/{sku}") by the method
is_throttling_message(o, mentions) ==
    \/ o = "raises_throttle_text"
    \/ (o \in {"throttled", "error_flag"} /\ mentions)

\* what getOrders does with a failure of the remote request: a 429 is
\* returned as [frame with the code, 0]; for every other failure the except
\* clause calls asyncio.create_task in the worker thread of asyncio.to_thread,
\* which has no running event loop, so a RuntimeError leaves the function
legacy_outcome(cause) ==
    CASE cause = "http_429" -> "throttled"
      [] cause \in {"api_error", "transient"} -> "raises"

\* the exception that leaves the client for a raising outcome, as the
\* orchestrator sees it (type and words of str(error))
surfaced_error(o) ==
    IF o = "raises_throttle_text"
    THEN [type |-> "Exception", msg |-> <<"HTTP", "429">>]
    ELSE [type |-> "RuntimeError", msg |-> <<"no", "running", "event", "loop">>]

\* the endpoint named by the rate_limited decorator of each method
slot_endpoint(m) ==
    CASE m = "_get_orders_for_market" -> "orders"
      [] m = "get_order_items" -> "order_items"
      [] m = "get_order" -> "order"
      [] m = "get_sales_data" -> "sales"

\* a method has been entered: the rate_limited wrapper has acquired its slot
\* once, before the body and its retry loop run
ClientInit ==
    /\ api_method \in ClientMethods
    /\ arg_mentions_429 \in BOOLEAN
    /\ api_pc = "loop"
    /\ api_retry_count = 0
    /\ api_attempts = <<>>
    /\ api_returned = "unset"
    /\ api_cause = "none"
    /\ backoff_calls = <<>>
    /\ api_slots = <<slot_endpoint(api_method)>>
    /\ api_sleeps = <<>>

ApiReturn(v) ==
    /\ api_pc' = "returned"
    /\ api_returned' = v
    /\ UNCHANGED api_cause

ApiRaise(o) ==
    /\ api_pc' = "raised"
    /\ api_cause' = o
    /\ UNCHANGED api_returned

ApiContinue == UNCHANGED <<api_pc, api_returned, api_cause>>

\* one iteration of the while loop of _get_orders_for_market
OrdersAttempt(o) ==
    /\ api_pc = "loop"
    /\ api_method = "_get_orders_for_market"
    /\ api_retry_count < ApiMaxRetries
    /\ api_attempts' = Append(api_attempts, o)
    /\ IF o \in {"data", "nodata"}
       THEN /\ ApiReturn(success_value(api_method, o))
            /\ UNCHANGED <<api_retry_count, api_sleeps>>
       ELSE /\ api_retry_count' = api_retry_count + 1
            /\ IF api_retry_count + 1 >= ApiMaxRetries
               THEN /\ IF o \in {"throttled", "error_flag"}
                       THEN ApiReturn("[]")
                       ELSE ApiRaise(o)
                    /\ UNCHANGED api_sleeps
               ELSE /\ api_sleeps' = Append(api_sleeps, Pow(2, api_retry_count + 1))
                    /\ ApiContinue
    /\ UNCHANGED <<api_method, arg_mentions_429, backoff_calls, api_slots>>
    /\ UNCHANGED <<limVars, retryVars, orchVars, notClient>>

\* one iteration of the while loop of get_order_items, get_order, get_sales_data
ItemAttempt(o) ==
    /\ api_pc = "loop"
    /\ api_method # "_get_orders_for_market"
    /\ api_retry_count < ApiMaxRetries
    /\ api_attempts' = Append(api_attempts, o)
    /\ IF o \in {"data", "nodata"}
       THEN /\ ApiReturn(success_value(api_method, o))
            /\ UNCHANGED <<api_retry_count, api_sleeps, backoff_calls>>
       ELSE /\ api_retry_count' = api_retry_count + 1
            /\ IF is_throttling_message(o, arg_mentions_429)
               THEN \* handle_rate_limit_error, then continue
                    /\ backoff_calls' = Append(backoff_calls, backoff_endpoint(api_method))
                    /\ UNCHANGED api_sleeps
                    /\ ApiContinue
               ELSE /\ UNCHANGED backoff_calls
                    /\ IF api_retry_count + 1 >= ApiMaxRetries
                       THEN /\ ApiRaise(o)
                            /\ UNCHANGED api_sleeps
                       ELSE /\ api_sleeps' = Append(api_sleeps, Pow(2, api_retry_count + 1))
                            /\ ApiContinue
    /\ UNCHANGED <<api_method, arg_mentions_429, api_slots>>
    /\ UNCHANGED <<limVars, retryVars, orchVars, notClient>>

\* the loop condition fails: the statement after the loop returns
LoopEnds ==
    /\ api_pc = "loop"
    /\ api_retry_count >= ApiMaxRetries
    /\ ApiReturn(exhausted_value(api_method))
    /\ UNCHANGED <<api_method, arg_mentions_429, api_retry_count, api_attempts,
                   backoff_calls, api_slots, api_sleeps>>
    /\ UNCHANGED <<limVars, retryVars, orchVars, notClient>>

ClientNext ==
    \/ \E o \in LegacyOutcomes : OrdersAttempt(o)
    \/ \E o \in LegacyOutcomes : ItemAttempt(o)
    \/ LoopEnds

vars == <<limVars, retryVars, orchVars, extVars>>

InitLimiter == LimInit /\ RetryIdle /\ OrchIdle /\ StratIdle /\ CliIdle /\ ErrIdle /\ ClientIdle

InitRetry == LimInit /\ RetryInit /\ OrchIdle /\ StratIdle /\ CliIdle /\ ErrIdle /\ ClientIdle

InitOrch == LimInit /\ RetryIdle /\ OrchInit /\ StratIdle /\ CliIdle /\ ErrIdle /\ ClientIdle

InitStrat == LimInit /\ RetryIdle /\ OrchIdle /\ StratInit /\ CliIdle /\ ErrIdle /\ ClientIdle

InitCli == LimInit /\ RetryIdle /\ OrchInit /\ StratIdle /\ CliInit /\ ErrIdle /\ ClientIdle

InitErr == LimInit /\ RetryIdle /\ OrchIdle /\ StratIdle /\ CliIdle /\ ErrIdle /\ ClientIdle

InitClient == LimInit /\ RetryIdle /\ OrchIdle /\ StratIdle /\ CliIdle /\ ErrIdle /\ ClientInit

SpecLimiter == InitLimiter /\ [][LimNext]_vars

SpecBackoff == InitLimiter /\ [][BackoffNext]_vars

SpecQuota == InitLimiter /\ [][QuotaNext]_vars

SpecRetry == InitRetry /\ [][RetryNext]_vars

SpecRetryHook == InitRetry /\ [][RetryHookNext]_vars

SpecOrch == InitOrch /\ [][OrchNext]_vars

SpecStrategy == InitStrat /\ [][StratNext]_vars

SpecCli == InitCli /\ [][CliNext]_vars

SpecErrorHandler == InitErr /\ [][ErrNext]_vars

SpecClient == InitClient /\ [][ClientNext]_vars

\* ------------------------------------------------------------------------
\* RateLimiter: properties
\* ------------------------------------------------------------------------
\* admissions of e inside the closed window that ends at its latest admission
InWindow(e) ==
    LET a == admitted[e]
        latest == a[Len(a)]
    IN {n \in DOMAIN a : a[n] >= latest - ENDPOINT_LIMITS[e].window_seconds}

\* C1: for every endpoint, the admissions recorded by acquire that fall in
\* the rolling window ending at any admission never exceed max_requests,
\* whatever the interleaving of the concurrent acquire calls.
C1_WindowBound ==
    \A e \in Endpoints :
        admitted[e] # <<>> =>
            Cardinality(InWindow(e)) <= ENDPOINT_LIMITS[e].max_requests

\* C1 witness: an acquire had to sleep for the window and, after it was
\* admitted, the window of its endpoint is full again.
C1_Witness ==
    \E e \in Endpoints :
        /\ windowWaits[e] >= 1
        /\ admitted[e] # <<>>
        /\ Cardinality(InWindow(e)) = ENDPOINT_LIMITS[e].max_requests

\* C4: after n >= 1 consecutive handle_rate_limit_error(E) calls without
\* retry_after on a fresh limiter, the stored backoff and the delay the n-th
\* call sleeps both equal min(1 * 2^n, 300) seconds.
C4_BackoffDoubles ==
    \A e \in Endpoints :
        throttles[e] >= 1 =>
            /\ retry_delays[e] = Min(BackoffSeed * Pow(2, throttles[e]), BackoffCap)
            /\ lastDelay[e] = retry_delays[e]

\* C5: once a throttling report has imposed a positive backoff on E and no
\* call on E has succeeded since, the backoff of E stays at least that high
\* and every acquire(E) started meanwhile waits at least that backoff.
C5_BackoffPersists ==
    \A e \in Endpoints :
        lastDelay[e] > 0 =>
            /\ retry_delays[e] >= lastDelay[e]
            /\ acquireBackoff[e] # -1 => acquireBackoff[e] >= lastDelay[e]

\* ------------------------------------------------------------------------
\* async_retry: properties
\* ------------------------------------------------------------------------
AllRetryable == \A n \in DOMAIN outcomes : outcomes[n] \in exceptions

Finished == result.kind \notin {"running", "idle"}

\* C6: with max_retries = n >= 1 and an operation that raises a retryable
\* exception on every attempt, the wrapper ends after exactly n invocations,
\* having slept b^0, ..., b^(n-2) in that order (nothing after the last
\* attempt), and raises the exception of the last attempt.
C6_AlwaysFailingSchedule ==
    (Finished /\ max_retries >= 1 /\ AllRetryable) =>
        /\ Len(outcomes) = max_retries
        /\ waits = [k \in 1..(max_retries - 1) |-> Pow(backoff_base, k - 1)]
        /\ result = [kind |-> "raised", attempt |-> max_retries - 1]

\* C6 witness: three failed attempts with base 2 and waits 1 s then 2 s.
C6_Witness ==
    /\ Finished /\ AllRetryable
    /\ max_retries = 3 /\ backoff_base = 2
    /\ Len(outcomes) = 3
    /\ waits = <<1, 2>>

\* C7: an exception outside the retryable set leaves the wrapper on the
\* attempt that raised it: that attempt adds no wait and no on_retry call
\* and no further invocation follows it.
C7_NonRetryablePropagates ==
    \A n \in DOMAIN outcomes :
        (outcomes[n] # "ok" /\ outcomes[n] \notin exceptions) =>
            /\ n = Len(outcomes)
            /\ result = [kind |-> "raised", attempt |-> n - 1]
            /\ Len(waits) = n - 1
            /\ Len(hookCalls) = IF on_retry THEN n - 1 ELSE 0

\* C7 witness: a non-retryable exception on a later attempt, after a retry
\* that did call on_retry.
C7_Witness ==
    /\ Len(outcomes) = 2 /\ outcomes[2] = "ValueError"
    /\ "ValueError" \notin exceptions
    /\ on_retry /\ max_retries = 3
    /\ hookCalls = <<0>>

\* ------------------------------------------------------------------------
\* OrderExtractionService: properties
\* ------------------------------------------------------------------------
IsSuccess(m) == m.event = "process_success"

SuccessEvents == SelectSeq(events, IsSuccess)

IsItemsCall(f) == f.call = "get_order_items"

ItemCalls == SelectSeq(fetchLog, IsItemsCall)

NumChunks(os, b) == (Len(os) + b - 1) \div b

\* the partition of os into consecutive chunks of b, the last one shorter
ExpectedChunks(os, b) ==
    [c \in 1..NumChunks(os, b) |-> SubSeq(os, (c - 1) * b + 1, Min(c * b, Len(os)))]

WrittenOrders == [c \in DOMAIN orderWrites |-> orderWrites[c].orders]

\* positions of the extracted orders that carry an id, in list order
RECURSIVE PositionsWithId(_)
PositionsWithId(n) ==
    IF n = 0 THEN <<>>
    ELSE IF orders[n] # NoId THEN Append(PositionsWithId(n - 1), n)
         ELSE PositionsWithId(n - 1)

\* the items get_order_items returned for the order at position pos
ItemsAt(pos) ==
    LET S == {k \in DOMAIN fetchLog :
                 fetchLog[k].call = "get_order_items" /\ fetchLog[k].order = pos}
    IN IF S = {} THEN <<>> ELSE fetchLog[CHOOSE k \in S : TRUE].items

RECURSIVE ItemsFromTo(_, _)
ItemsFromTo(a, b) == IF a > b THEN <<>> ELSE ItemsAt(a) \o ItemsFromTo(a + 1, b)

RECURSIVE ExpectedItemWrites(_)
ExpectedItemWrites(c) ==
    IF c = 0 THEN <<>>
    ELSE LET its == ItemsFromTo((c - 1) * batch_size + 1,
                                Min(c * batch_size, Len(orders)))
         IN IF its = <<>> THEN ExpectedItemWrites(c - 1)
            ELSE Append(ExpectedItemWrites(c - 1), its)

AllAttemptsTransient ==
    /\ attemptErrors # <<>>
    /\ \A k \in DOMAIN attemptErrors : should_retry(attemptErrors[k])

\* C2: when every attempt fails with a transient-signature error, the run
\* ends after exactly two attempts and one 30 s cool-down, and the error of
\* the second attempt is the one that reaches the caller.
C2_RetriesExactlyOnce ==
    (opc = "failed" /\ AllAttemptsTransient) =>
        /\ Len(attemptErrors) = 2
        /\ cooldowns = 1
        /\ raised = attemptErrors[2]

\* C3: when an attempt fails with an error that matches no retryable
\* signature, that same error reaches the caller, without a cool-down for it
\* and without another invocation of extract.
C3_FatalPropagatesUnchanged ==
    (opc = "failed" /\ attemptErrors # <<>>
        /\ ~should_retry(attemptErrors[Len(attemptErrors)])) =>
        /\ raised = attemptErrors[Len(attemptErrors)]
        /\ cooldowns = Len(attemptErrors) - 1
        /\ attempts <= Len(attemptErrors)

\* C8: a run whose extract returned nothing records exactly one
\* process_success event, with count 0, and makes no order write, no item
\* write, no item or sales fetch and sends no success notification.
C8_EmptyResultNoEffects ==
    (opc = "done" /\ orders = <<>>) =>
        /\ SuccessEvents = <<Metric("process_success", 0)>>
        /\ orderWrites = <<>>
        /\ itemWrites = <<>>
        /\ fetchLog = <<>>
        /\ notifications = 0

\* C8 witness: a daily_full run (the type that notifies) ended on an empty
\* extraction result.
C8_Witness ==
    /\ opc = "done" /\ orders = <<>>
    /\ extract_type = "daily_full"
    /\ Len(events) = 2

C10_FetchFailureIsolated ==
    /\ errOrigin \notin {"get_order_items", "get_sales_data"}
    /\ (opc = "done" /\ extract_type # "status_update") =>
        /\ [k \in DOMAIN ItemCalls |-> ItemCalls[k].order]
               = PositionsWithId(Len(orders))
        /\ WrittenOrders = ExpectedChunks(orders, batch_size)
        /\ itemWrites = ExpectedItemWrites(NumChunks(orders, batch_size))
        /\ events[Len(events)] = Metric("process_success", Len(orders))

\* C10 witness: the item fetch of the first order failed, the second order
\* of the same chunk was still fetched and its items upserted, and the
\* second chunk was processed before the run ended successfully.
C10_Witness ==
    /\ opc = "done" /\ extract_type = "incremental"
    /\ Len(orders) = 3 /\ batch_size = 2
    /\ Len(fetchLog) >= 3
    /\ fetchLog[1] = Fetch("get_order_items", 1, <<>>, FALSE)
    /\ fetchLog[2] = Fetch("get_order_items", 2, <<"A">>, TRUE)
    /\ itemWrites # <<>> /\ itemWrites[1] = <<"A">>
    /\ Len(orderWrites) = 2

\* ------------------------------------------------------------------------
\* Extraction strategies: properties
\* ------------------------------------------------------------------------
IsPendingRow(id) == store[id] # NoRec /\ store[id].orderStatus \in {"Pending", "Unshipped"}

TupleDiffers(a, b) ==
    <<a.orderStatus, a.lastUpdateDate>> # <<b.orderStatus, b.lastUpdateDate>>

NoDuplicates(rows) == Cardinality(SeqIds(rows)) = Len(rows)

InStale(id) == id \in SeqIds(stale_orders)

InApi(id) == id \in SeqIds(api_orders)

Changed(id) == TupleDiffers(RowOf(stale_orders, id), RowOf(api_orders, id))

DeleteSet == {orders_to_delete[n] : n \in DOMAIN orders_to_delete}

Partitioned == spc \in {"weekly_delete", "returned"} \/ deleteCalls # <<>>

\* C12: once WeeklyCatchUpExtraction.extract has partitioned the fetched
\* orders against the stale rows, an id in both with a differing tuple is in
\* the delete set and in the returned list, an id fetched but not stale is in
\* the returned list only, and an id unchanged in both or only local is in
\* neither; the list returned is the insert list.
C12_WeeklyPartition ==
    (strategy = "weekly_catch_up" /\ Partitioned) =>
        /\ \A id \in OrderIds :
              /\ id \in DeleteSet <=> (InStale(id) /\ InApi(id) /\ Changed(id))
              /\ id \in SeqIds(orders_to_insert) <=>
                     (InApi(id) /\ (InStale(id) => Changed(id)))
        /\ NoDuplicates(orders_to_insert)
        /\ Cardinality(DeleteSet) = Len(orders_to_delete)
        /\ \A n \in DOMAIN orders_to_insert :
              orders_to_insert[n] = RowOf(api_orders, orders_to_insert[n].amazonOrderId)
        /\ (spc = "returned" => extracted = orders_to_insert)

\* a returned run with one id changed in both views and one id only remote
C12_Witness ==
    /\ strategy = "weekly_catch_up"
    /\ spc = "returned"
    /\ \E b, c \in OrderIds :
          /\ InStale(b) /\ InApi(b) /\ Changed(b)
          /\ b \in DeleteSet /\ b \in SeqIds(extracted)
          /\ ~InStale(c) /\ InApi(c)
          /\ c \notin DeleteSet /\ c \in SeqIds(extracted)

DeletedIds == UNION {{deleteCalls[c][m] : m \in DOMAIN deleteCalls[c]} : c \in DOMAIN deleteCalls}

\* C13: delete_orders is called only by a WeeklyCatchUp extract that has not
\* returned yet, at most once, and every id it receives belongs to a stale
\* (Pending, older than the cut-off) local row whose fetched tuple differs
\* and is among the records that extract returns.
C13_DeleteOnlyReconciled ==
    /\ deleteCalls # <<>> =>
          /\ strategy = "weekly_catch_up"
          /\ Len(deleteCalls) = 1
          /\ extractCalls = 1
    /\ \A id \in DeletedIds :
          /\ InStale(id)
          /\ RowOf(stale_orders, id).orderStatus = "Pending"
          /\ RowOf(stale_orders, id).lastUpdateDate < StaleCutoff
          /\ InApi(id)
          /\ Changed(id)
          /\ id \in SeqIds(orders_to_insert)
          /\ (spc = "returned" => id \in SeqIds(extracted))
    /\ \A id \in OrderIds :
          (db_manager /\ store[id] = NoRec /\ id \in SeqIds(stale_orders)) =>
              id \in DeletedIds

\* a returned WeeklyCatchUp run that deleted a row
C13_Witness ==
    /\ strategy = "weekly_catch_up"
    /\ spc = "returned"
    /\ DeletedIds # {}
    /\ \E id \in DeletedIds : store[id] = NoRec /\ id \in SeqIds(extracted)

\* C14: a strategy that needs the persistence collaborator and was built
\* without one has failed in its constructor: extract is never invoked and
\* no marketplace or persistence call is made.
C14_FailsAtConstruction ==
    (strategy \in NeedsStore /\ ~db_manager /\ spc # "new") =>
        /\ spc = "raised"
        /\ extractCalls = 0
        /\ remoteCalls = 0
        /\ storeCalls = 0

\* ------------------------------------------------------------------------
\* Command line: properties
\* ------------------------------------------------------------------------
\* C15: the process exits with 0 when the extraction run completed and with
\* 1 only when an error left the orchestrator.
C15_ExitCodeReflectsOutcome ==
    cpc = "exited" => (exit_code = 0 <=> opc = "done")

\* ------------------------------------------------------------------------
\* EnhancedErrorHandler: properties
\* ------------------------------------------------------------------------
\* C16: no exception leaves handle_error, whichever of its steps fails:
\* every call that has ended has returned normally.
C16_HandleErrorNeverRaises ==
    /\ ~hraised
    /\ hpc # "raised"
    /\ (hpc = "idle" => hreturned = handled)
    /\ (hpc # "idle" => hreturned = handled - 1)

\* a call that returns although metrics recording and the critical alert failed
C16_Witness ==
    /\ hpc = "returned"
    /\ {"metrics", "alert"} \subseteq hfailed

\* ------------------------------------------------------------------------
\* AmazonAPIClient: properties
\* ------------------------------------------------------------------------
\* C17: no client method raises because of throttling: when an exception
\* leaves _get_orders_for_market, get_order_items, get_order or
\* get_sales_data, the attempt that produced it was not a throttled one.
C17_ThrottlingAbsorbed ==
    api_pc = "raised" => api_cause \notin ThrottlingOutcomes

\* ------------------------------------------------------------------------
\* RateLimiter: independence of the endpoints
\* ------------------------------------------------------------------------
Suspended(t) == tpc[t] \in {"window_sleep", "backoff_sleep"} /\ locks[tep[t]] = t

\* C18: while a task is suspended inside acquire holding the lock of its
\* endpoint, an acquire on another endpoint is not held up by it: it can
\* enter as soon as the other endpoint's own lock is free, every later step
\* of it is enabled, and when it has to wait, it wakes when the oldest entry
\* of its own history leaves its own window.
C18_EndpointsIndependent ==
    \A ta, tb \in Tasks : \A b \in Endpoints :
        (ta # tb /\ Suspended(ta) /\ tep[ta] # b) =>
            /\ (tpc[tb] = "idle" /\ locks[b] = NoTask) => ENABLED AcquireEnter(tb, b)
            /\ (tep[tb] = b /\ tpc[tb] = "check") => ENABLED AcquireCheck(tb)
            /\ (tep[tb] = b /\ tpc[tb] \in {"record", "record_after_wait"}) =>
                   ENABLED AcquireRecord(tb)
            /\ (tep[tb] = b /\ tpc[tb] = "window_sleep") =>
                   wake[tb] = request_history[b][1]
                              + ENDPOINT_LIMITS[b].window_seconds + SafetyMargin

\* one task sleeps for the window of its endpoint, holding its lock, while
\* the other task is past the lock of a different endpoint
C18_Witness ==
    \E ta, tb \in Tasks :
        /\ ta # tb
        /\ Suspended(ta)
        /\ tep[tb] \in Endpoints
        /\ tep[tb] # tep[ta]
        /\ tpc[tb] \in {"check", "record", "record_after_wait"}
        /\ locks[tep[tb]] = tb

\* C19: every step that changes the request history or the backoff delay of
\* an endpoint is taken by a task that holds the lock of that endpoint while
\* it makes the change (it took the lock in this step or held it before).
C19_MutationsUnderLock ==
    [][\A e \in Endpoints :
          (request_history'[e] # request_history[e] \/ retry_delays'[e] # retry_delays[e])
              => \E t \in Tasks :
                     /\ tpc'[t] # tpc[t]
                     /\ locks[lock_of(e)] = t \/ locks'[lock_of(e)] = t]_vars

\* ------------------------------------------------------------------------
\* async_retry: the on_retry callback
\* ------------------------------------------------------------------------
\* the waits of the wrapper without callback after n invocations
HooklessWaits(n) == [k \in 1..(n - 1) |-> wait_time(backoff_base, k - 1)]

\* how the wrapper without callback ends on the outcomes consumed so far
HooklessResult ==
    LET n == Len(outcomes) IN
    IF n = 0 THEN [kind |-> "RuntimeError", attempt |-> 0]
    ELSE IF outcomes[n] = "ok" THEN [kind |-> "returned", attempt |-> n - 1]
    ELSE IF ~is_caught(outcomes[n], exceptions) \/ n = max_retries
    THEN [kind |-> "raised", attempt |-> n - 1]
    ELSE [kind |-> "running", attempt |-> n]

\* C20: a wrapper given an on_retry callback ends on the same invocation,
\* after the same waits and with the same result or error as the wrapper
\* without callback on the same outcomes of the operation, whatever the
\* callback does.
C20_HookTransparent ==
    (Finished /\ on_retry) =>
        /\ result = HooklessResult
        /\ waits = HooklessWaits(Len(outcomes))

C22_SlotPerAttempt ==
    api_method \in ClientMethods =>
        /\ Len(api_attempts) <= Len(api_slots)
        /\ \A k \in DOMAIN api_slots : api_slots[k] = slot_endpoint(api_method)

\* C23: a client call makes at most max_retries attempts of its remote
\* request: for get_order_status, the requests made for one order, whether
\* they ended in an exception or in a result that is not a success, never
\* exceed max_retries.
C23_AttemptsBounded ==
    status_polls + status_retry <= StatusMaxRetries

ThrottledAttempts == {k \in DOMAIN api_attempts : api_attempts[k] \in ThrottlingOutcomes}

\* C24: in get_order_items, get_order and get_sales_data every attempt that
\* failed with throttling has been followed, before the next attempt, by one
\* handle_rate_limit_error call, made for the endpoint on which the call
\* acquired its slot.
C24_BackoffOnSlotEndpoint ==
    api_method \in ClientMethods \ {"_get_orders_for_market"} =>
        /\ Len(backoff_calls) = Cardinality(ThrottledAttempts)
        /\ \A k \in DOMAIN backoff_calls : backoff_calls[k] = slot_endpoint(api_method)

TransientOnly ==
    /\ api_attempts # <<>>
    /\ \A k \in DOMAIN api_attempts : api_attempts[k] = legacy_outcome("transient")

\* C25: when every attempt of _get_orders_for_market met a connection or
\* timeout failure, the call ends after max_retries attempts by raising, and
\* the error it raises is one the orchestrator answers with its whole-run
\* retry.
C25_TransientReachesRetry ==
    (api_method = "_get_orders_for_market" /\ api_pc \in {"returned", "raised"}
        /\ TransientOnly) =>
        /\ Len(api_attempts) = ApiMaxRetries
        /\ api_pc = "raised"
        /\ should_retry(surfaced_error(api_cause))

\* ------------------------------------------------------------------------
\* OrderExtractionService: the except clause
\* ------------------------------------------------------------------------
IsProcessError(m) == m.event = "process_error"

\* C26: once the except clause of an attempt has run, the error reporter has
\* been invoked once and one process_error event has been recorded for every
\* attempt that raised, and a run that failed raises the error of its last
\* attempt.
C26_ErrorRecordedOnce ==
    opc # "except" =>
        /\ reports = Len(attemptErrors)
        /\ Len(SelectSeq(events, IsProcessError)) = Len(attemptErrors)
        /\ opc = "failed" => raised = attemptErrors[Len(attemptErrors)]

\* ------------------------------------------------------------------------
\* WeeklyCatchUp: deletes and the failure of the run
\* ------------------------------------------------------------------------
\* C27: when a WeeklyCatchUp run has failed after its deletes were issued,
\* every order that was in the store before the run (the rows that the
\* deletes can touch are the stale rows loaded at its start) is in the store.
C27_NoOrderLostOnFailure ==
    (strategy = "weekly_catch_up" /\ deleteCalls # <<>>
        /\ spc \in {"raised", "run_failed"}) =>
        \A id \in SeqIds(stale_orders) : store[id] # NoRec

ChunkOf(pos) == (pos - 1) \div batch_size

\* C29: no two get_sales_data calls made for orders of the same chunk carry
\* the same (asin, sku) pair.
C29_SalesOncePerChunk ==
    \A a, b \in DOMAIN fetchLog :
        (/\ a # b
         /\ fetchLog[a].call = "get_sales_data"
         /\ fetchLog[b].call = "get_sales_data"
         /\ ChunkOf(fetchLog[a].order) = ChunkOf(fetchLog[b].order)) =>
            fetchLog[a].items # fetchLog[b].items

\* ------------------------------------------------------------------------
\* AsyncService: lifecycle
\* ------------------------------------------------------------------------
\* C30: when extract_orders has returned or raised, the service is
\* uninitialised and every pool the call opened is closed.
C30_DependenciesClosed ==
    opc \in {"done", "failed"} =>
        /\ ~initialized
        /\ open_pools = {}

====
